---- MODULE Spec2Model ----
(***************************************************************************)
(* A model of the fireorm metadata registry (metadata-storage.ts) and of   *)
(* the query facade CollectionQuery (fireorm.decorators.ts).               *)
(*                                                                         *)
(* JavaScript's undefined is modelled per type: "undefined" for strings,   *)
(* <<>> for the where / select / order objects, NoLimit for numbers.       *)
(***************************************************************************)
EXTENDS Integers, Sequences, FiniteSets, TLC

VARIABLES
    store,        \* the module-level `store`: NoStore, or the id of the instance
    created,      \* number of MetadataStorage instances constructed so far
    collections,  \* MetadataStorage.collections
    ids,          \* MetadataStorage.ids
    properties,   \* MetadataStorage.properties
    relations,    \* MetadataStorage.relations
    db,           \* the documents of the database: document path -> data
    options,      \* CollectionQuery.options
    call,         \* the operation called last, with its arguments
    ret,          \* what that operation returned or threw, boxed
    reads         \* the database calls that operation issued, in order

\* The result of the last operation: [kind, value].
result == [kind |-> ret.kind, value |-> ret.box[ret.type]]

registry == <<collections, ids, properties, relations>>
vars == <<store, created, collections, ids, properties, relations,
          db, options, call, ret, reads>>

-----------------------------------------------------------------------------
(* Bounds *)

\* Total number of decorator registrations in the registry specification.
MaxReg == 2

\* Documents d1 .. dMaxUsers may exist in the collection of users.
MaxUsers == 3

\* Largest limit a caller asks for.
MaxLimit == 2

\* The database call of an operation that is made to fail: none, or the
\* first .. the MaxFail-th.
MaxFail == 2

\* Longest id list given to findByIds.
MaxIds == 2

\* A caller that pages through a result gives up once it has received more
\* than this many documents.
MaxReceived == 6

-----------------------------------------------------------------------------
(* Values *)

Undefined == "undefined"
NoStore == 0
NoPrefix == ""

Targets == {"User", "Post"}
CollectionNames == {"users", "posts"}
Prefixes == {NoPrefix, "p_"}
PropertyNames == {"id", "key"}
Strategies == {"uuid/v1", "uuid/v4", "auto", "fn"}

Returned(v) == [kind |-> "return", value |-> v]
Thrown(msg) == [kind |-> "throw", value |-> msg]

\* `ret` keeps a result under the name of its type, so that the results of
\* different operations are distinct values of the same shape.
Box(type, r) ==
    LET t == IF r.kind = "throw" THEN "string" ELSE type
    IN  [kind |-> r.kind, type |-> t, box |-> [k \in {t} |-> r.value]]

\* Array.prototype.find: the first element satisfying the predicate, as a
\* sequence of length 0 (undefined) or 1.
FindFirst(list, Pred(_)) ==
    LET first == {i \in 1..Len(list) :
                     Pred(list[i]) /\ \A j \in 1..(i - 1) : ~Pred(list[j])}
    IN  IF first = {} THEN <<>> ELSE <<list[CHOOSE i \in first : TRUE]>>

\* F(v), with v evaluated once: an await, or a const that is read many times.
Let(v, F(_)) == CHOOSE r \in {F(x) : x \in {v}} : TRUE

\* Array.prototype.filter
Filter(list, Pred(_)) == SelectSeq(list, Pred)

-----------------------------------------------------------------------------
(* MetadataStorage *)

\* Mutant: a registry is constructed on every call.
getMetadataStorage_AlwaysNew == [inst |-> created + 1, fresh |-> TRUE]

\* getMetadataStorage: the instance returned, and whether it was constructed
\* by this call (a new instance has four empty lists).
getMetadataStorage ==
    IF store = NoStore
    THEN [inst |-> created + 1, fresh |-> TRUE]
    ELSE [inst |-> store, fresh |-> FALSE]

\* The lists of the instance getMetadataStorage() returns.
ListsOf(ms) ==
    IF ms.fresh
    THEN [collections |-> <<>>, ids |-> <<>>, properties |-> <<>>, relations |-> <<>>]
    ELSE [collections |-> collections, ids |-> ids,
          properties |-> properties, relations |-> relations]

\* Mutant: the lookup ignores the class.
getCollection_AnyTarget(cols, target) ==
    LET collection == FindFirst(cols, LAMBDA c : TRUE)
    IN  IF collection = <<>> THEN Thrown("CollectionNotFound")
        ELSE Returned(collection[1])

getCollection(cols, target) ==
    LET collection == FindFirst(cols, LAMBDA c : c.target = target)
    IN  IF collection = <<>> THEN Thrown("CollectionNotFound")
        ELSE Returned(collection[1])

getCollectionName(cols, target) ==
    LET collection == FindFirst(cols, LAMBDA c : c.target = target)
    IN  IF collection = <<>> THEN Thrown("CollectionNotFound")
        ELSE Returned((IF collection[1].prefix # NoPrefix
                       THEN collection[1].prefix ELSE "") \o collection[1].name)

getProperties(props, target) ==
    Returned(Filter(props, LAMBDA p : p.target = target))

getIdProp(idList, target) ==
    LET primaryProp == FindFirst(idList, LAMBDA i : i.target = target)
    IN  IF primaryProp = <<>> THEN Thrown("IdPerpertyNotFound")
        ELSE Returned(primaryProp[1])

getIdPropName(idList, target) ==
    LET primaryProp == getIdProp(idList, target)
    IN  IF primaryProp.kind = "throw" THEN primaryProp
        ELSE Returned(primaryProp.value.propertyName)

\* The value of a generated id is abstracted to the generator that made it.
getIdGenerataValue(idList, target) ==
    LET primaryProp == getIdProp(idList, target)
    IN  IF primaryProp.kind = "throw" THEN primaryProp
        ELSE IF primaryProp.value.strategy = "fn" THEN Returned("strategy()")
        ELSE IF primaryProp.value.strategy = "uuid/v1" THEN Returned("uuid/v1()")
        ELSE IF primaryProp.value.strategy = "uuid/v4" THEN Returned("uuid/v4()")
        ELSE Returned(Undefined)

-----------------------------------------------------------------------------
(* Registration: the decorators push one entry onto a list of the registry *)

RegistrySize == Len(collections) + Len(ids) + Len(properties) + Len(relations)

\* The effect of evaluating getMetadataStorage() inside an operation, which
\* then leaves the lists as `lists`.
Registry(ms, lists) ==
    /\ store' = ms.inst
    /\ created' = IF ms.fresh THEN created + 1 ELSE created
    /\ collections' = lists.collections
    /\ ids' = lists.ids
    /\ properties' = lists.properties
    /\ relations' = lists.relations

RegisterCollection ==
    \E target \in Targets, name \in CollectionNames, prefix \in Prefixes :
        LET ms == getMetadataStorage
            lists == ListsOf(ms)
            entry == [name |-> name, target |-> target, prefix |-> prefix]
        IN  /\ RegistrySize < MaxReg
            /\ Registry(ms, [lists EXCEPT !.collections = Append(@, entry)])
            /\ call' = [op |-> "Collection", target |-> target]
            /\ ret' = Box("string", Returned(Undefined))
            /\ reads' = <<>>
            /\ UNCHANGED <<db, options>>

RegisterId ==
    \E target \in Targets, propertyName \in PropertyNames, strategy \in Strategies :
        LET ms == getMetadataStorage
            lists == ListsOf(ms)
            entry == [target |-> target, propertyName |-> propertyName,
                      strategy |-> strategy]
        IN  /\ RegistrySize < MaxReg
            /\ Registry(ms, [lists EXCEPT !.ids = Append(@, entry)])
            /\ call' = [op |-> "IdProp", target |-> target]
            /\ ret' = Box("string", Returned(Undefined))
            /\ reads' = <<>>
            /\ UNCHANGED <<db, options>>

RegisterProperty ==
    \E target \in Targets :
        LET ms == getMetadataStorage
            lists == ListsOf(ms)
            entry == [target |-> target, propertyName |-> "name"]
        IN  /\ RegistrySize < MaxReg
            /\ Registry(ms, [lists EXCEPT !.properties = Append(@, entry)])
            /\ call' = [op |-> "Prop", target |-> target]
            /\ ret' = Box("string", Returned(Undefined))
            /\ reads' = <<>>
            /\ UNCHANGED <<db, options>>

RegisterRelation ==
    \E target \in Targets :
        LET ms == getMetadataStorage
            lists == ListsOf(ms)
            entry == [target |-> target, propertyName |-> "owner",
                      relationType |-> "many-to-one", type |-> "User",
                      inverseSide |-> Undefined]
        IN  /\ RegistrySize < MaxReg
            /\ Registry(ms, [lists EXCEPT !.relations = Append(@, entry)])
            /\ call' = [op |-> "Relation", target |-> target]
            /\ ret' = Box("string", Returned(Undefined))
            /\ reads' = <<>>
            /\ UNCHANGED <<db, options>>

-----------------------------------------------------------------------------
(* The read operations of the registry, called on getMetadataStorage() *)

ReadOps == {"getMetadataStorage", "getCollection", "getCollectionName",
            "getProperties", "getIdProp", "getIdPropName", "getIdGenerataValue"}

Read(op, type, target, ms, value) ==
    /\ Registry(ms, ListsOf(ms))
    /\ call' = [op |-> op, target |-> target]
    /\ ret' = Box(type, value)
    /\ reads' = <<>>
    /\ UNCHANGED <<db, options>>

GetMetadataStorage ==
    LET ms == getMetadataStorage
    IN  /\ Registry(ms, ListsOf(ms))
        /\ call' = [op |-> "getMetadataStorage", was |-> store]
        /\ ret' = Box("number", Returned(ms.inst))
        /\ reads' = <<>>
        /\ UNCHANGED <<db, options>>

GetCollection ==
    \E target \in Targets :
        LET ms == getMetadataStorage
        IN  Read("getCollection", "record", target, ms,
                 getCollection(ListsOf(ms).collections, target))

GetCollectionName ==
    \E target \in Targets :
        LET ms == getMetadataStorage
        IN  Read("getCollectionName", "string", target, ms,
                 getCollectionName(ListsOf(ms).collections, target))

GetProperties ==
    \E target \in Targets :
        LET ms == getMetadataStorage
        IN  Read("getProperties", "list", target, ms,
                 getProperties(ListsOf(ms).properties, target))

GetIdProp ==
    \E target \in Targets :
        LET ms == getMetadataStorage
        IN  Read("getIdProp", "record", target, ms, getIdProp(ListsOf(ms).ids, target))

GetIdPropName ==
    \E target \in Targets :
        LET ms == getMetadataStorage
        IN  Read("getIdPropName", "string", target, ms, getIdPropName(ListsOf(ms).ids, target))

GetIdGenerataValue ==
    \E target \in Targets :
        LET ms == getMetadataStorage
        IN  Read("getIdGenerataValue", "string", target, ms,
                 getIdGenerataValue(ListsOf(ms).ids, target))

ReadRegistry ==
    \/ GetMetadataStorage
    \/ GetCollection
    \/ GetCollectionName
    \/ GetProperties
    \/ GetIdProp
    \/ GetIdPropName
    \/ GetIdGenerataValue

-----------------------------------------------------------------------------
(* The registry from module load on: decorators run, reads interleave *)

NoDocuments == [path \in {} |-> Undefined]

InitRegistry ==
    /\ store = NoStore
    /\ created = 0
    /\ collections = <<>>
    /\ ids = <<>>
    /\ properties = <<>>
    /\ relations = <<>>
    /\ db = NoDocuments
    /\ options = [collectionId |-> Undefined, parentPath |-> Undefined, tnx |-> FALSE]
    /\ call = [op |-> "none"]
    /\ ret = Box("string", Returned(Undefined))
    /\ reads = <<>>

NextRegistry ==
    \/ RegisterCollection
    \/ RegisterId
    \/ RegisterProperty
    \/ RegisterRelation
    \/ ReadRegistry

SpecRegistry == InitRegistry /\ [][NextRegistry]_vars

-----------------------------------------------------------------------------
(* Claims on the registry *)

Range(list) == {list[i] : i \in 1..Len(list)}
EntriesOf(list, target) == {e \in Range(list) : e.target = target}

\* What an id entry's strategy generates (the generator, not the value).
GeneratedBy(entry) ==
    CASE entry.strategy = "fn" -> "strategy()"
      [] entry.strategy = "uuid/v1" -> "uuid/v1()"
      [] entry.strategy = "uuid/v4" -> "uuid/v4()"
      [] OTHER -> Undefined

\* C1: the collection reads throw 'CollectionNotFound' exactly when no entry
\* of collections has the target, the id reads throw exactly when no entry of
\* ids has it; otherwise each returns the data of an entry registered for
\* that same target (getCollectionName: the prefix, or the empty string,
\* followed by the name).
C1_MissingMetadata ==
    /\ call.op \in {"getCollection", "getCollectionName"} =>
          /\ result.kind = "throw" <=> EntriesOf(collections, call.target) = {}
          /\ result.kind = "throw" => result.value = "CollectionNotFound"
    /\ call.op = "getCollection" /\ result.kind = "return" =>
          result.value \in EntriesOf(collections, call.target)
    /\ call.op = "getCollectionName" /\ result.kind = "return" =>
          \E e \in EntriesOf(collections, call.target) :
              result.value = e.prefix \o e.name
    /\ call.op \in {"getIdProp", "getIdPropName", "getIdGenerataValue"} =>
          result.kind = "throw" <=> EntriesOf(ids, call.target) = {}
    /\ call.op = "getIdProp" /\ result.kind = "return" =>
          result.value \in EntriesOf(ids, call.target)
    /\ call.op = "getIdPropName" /\ result.kind = "return" =>
          \E e \in EntriesOf(ids, call.target) : result.value = e.propertyName
    /\ call.op = "getIdGenerataValue" /\ result.kind = "return" =>
          \E e \in EntriesOf(ids, call.target) : result.value = GeneratedBy(e)

\* A read of a registered class returns while an entry of another class
\* precedes its own in the list.
C1_Witness ==
    /\ call.op = "getCollectionName"
    /\ result.kind = "return"
    /\ Len(collections) = 2
    /\ collections[1].target # call.target
    /\ collections[2].prefix # NoPrefix

-----------------------------------------------------------------------------
(* The document database, as the query layer sees it *)

\* A field value: undefined, a number, a string, a DocumentReference, or
\* (after relations are loaded) a related document or a list of them.
Undef == [t |-> "undefined"]
Num(n) == [t |-> "number", n |-> n]
Str(x) == [t |-> "string", s |-> x]
Ref(col, id) == [t |-> "DocumentReference", col |-> col, id |-> id]
One(data) == [t |-> "object", data |-> data]
Many(list) == [t |-> "array", list |-> list]

PathOf(col, id) == col \o "/" \o id

Fields == {"id", "v", "manager", "author", "posts", "comments"}
NoData == [f \in Fields |-> Undef]

\* A stored document: its collection, its id and its data.
Doc(col, id, data) == [col |-> col, id |-> id, data |-> data]

UserId(i) == "d" \o ToString(i)
UserIds == {UserId(i) : i \in 1..MaxUsers}

\* Document names in the order the database sorts them.
IdOrder == <<"c1">> \o [i \in 1..MaxUsers |-> UserId(i)] \o <<"gone", "p1", "s1">>
ColOrder == <<"comments", "orgs/o1/users", "posts", "users">>
IndexIn(seq, x) == CHOOSE i \in 1..Len(seq) : seq[i] = x
NameRank(doc) == IndexIn(ColOrder, doc.col) * (Len(IdOrder) + 1) + IndexIn(IdOrder, doc.id)

\* The last segment of a collection path: what collectionGroup() matches.
CollectionIdOf(col) == IF col = "orgs/o1/users" THEN "users" ELSE col

\* DocumentReference.get() and the snapshots of a query.
Snapshot(doc) == [exists |-> TRUE, col |-> doc.col, id |-> doc.id, data |-> doc.data]
Missing(col, id) == [exists |-> FALSE, col |-> col, id |-> id, data |-> NoData]

DocGet(docs, col, id) ==
    LET hit == {d \in docs : d.col = col /\ d.id = id}
    IN  IF hit = {} THEN Missing(col, id) ELSE Snapshot(CHOOSE d \in hit : TRUE)

\* A query under construction: collection() or collectionGroup(), then
\* where, select, orderBy, limit and startAfter.
NoLimit == 0 - 1
Collection(path) ==
    [group |-> FALSE, path |-> path, wheres |-> <<>>, select |-> <<>>,
     orders |-> <<>>, limit |-> NoLimit, startAfter |-> <<>>]
CollectionGroup(collectionId) ==
    [group |-> TRUE, path |-> collectionId, wheres |-> <<>>, select |-> <<>>,
     orders |-> <<>>, limit |-> NoLimit, startAfter |-> <<>>]

InSource(q, doc) ==
    IF q.group THEN CollectionIdOf(doc.col) = q.path ELSE doc.col = q.path

\* A document matches when it passes every where and has every orderBy field.
Matches(q, doc) ==
    /\ \A i \in 1..Len(q.wheres) : doc.data[q.wheres[i].field] = q.wheres[i].value
    /\ \A i \in 1..Len(q.orders) : doc.data[q.orders[i].field] # Undef

\* The sort order of a query: its orderBy fields, then the document name in
\* the direction of the last orderBy.
Before(q, a, b) ==
    LET desc == q.orders # <<>> /\ q.orders[Len(q.orders)].dir = "desc"
        byName == IF desc THEN NameRank(a) > NameRank(b) ELSE NameRank(a) < NameRank(b)
        differing == {i \in 1..Len(q.orders) :
                        a.data[q.orders[i].field] # b.data[q.orders[i].field]}
    IN  IF differing = {} THEN byName
        ELSE LET i == CHOOSE k \in differing : \A j \in differing : k <= j
                 x == a.data[q.orders[i].field].n
                 y == b.data[q.orders[i].field].n
             IN  IF q.orders[i].dir = "desc" THEN x > y ELSE x < y

Sorted(q, set) ==
    [i \in 1..Cardinality(set) |->
        CHOOSE d \in set : Cardinality({e \in set : Before(q, e, d)}) = i - 1]

Project(q, data) ==
    IF q.select = <<>> THEN data
    ELSE [f \in Fields |-> IF \E i \in 1..Len(q.select) : q.select[i] = f
                           THEN data[f] ELSE Undef]

\* A snapshot given to startAfter must be a document of the collection
\* queried (any document, for a collection group).
CursorOk(q) ==
    \A i \in 1..Len(q.startAfter) :
        q.group \/ q.startAfter[i].col = q.path

\* Query.get(): the documents of the source that match, past the cursor,
\* sorted, cut at the limit, with the selected fields.
Past(q, matching) ==
    {d \in matching : \A i \in 1..Len(q.startAfter) : Before(q, q.startAfter[i], d)}

Cut(q, sorted) ==
    IF q.limit = NoLimit \/ q.limit >= Len(sorted) THEN sorted
    ELSE SubSeq(sorted, 1, q.limit)

QuerySnapshot(q, cut) ==
    [i \in 1..Len(cut) |->
        [exists |-> TRUE, col |-> cut[i].col, id |-> cut[i].id,
         data |-> Project(q, cut[i].data)]]

Run(docs, q) ==
    Let(Past(q, {d \in docs : InSource(q, d) /\ Matches(q, d)}), LAMBDA past :
        Let(Sorted(q, past), LAMBDA sorted : QuerySnapshot(q, Cut(q, sorted))))

RunQuery(docs, q) == Let(q, LAMBDA query : Run(docs, query))

-----------------------------------------------------------------------------
(* CollectionQuery: loading relations *)

\* The collection path of a class: the registered collection's prefix and name.
getCollectionPath(cols, target) == getCollectionName(cols, target)

RelationNames == {"manager", "posts", "comments"}
NoMapping == [r \in RelationNames |-> Undefined]

Null == [t |-> "null"]
Entity(data) == [t |-> "entity", data |-> data]

\* The database calls, as they are logged in `reads`.
DocRead(col, id) == [api |-> "doc.get", col |-> col, id |-> id]
QueryRead(api, q) == [api |-> api, query |-> q]
AllRead(api, col, idList) == [api |-> api, col |-> col, ids |-> idList]

CacheHas(cache, key) == \E i \in 1..Len(cache) : cache[i].key = key

\* Mutant: the fetch is stored without looking the key up.
CachePut_NoLookup(cache, key, fetch) == Append(cache, [key |-> key, fetch |-> fetch])

\* relationDocCache[key] = fetch, unless the key is already there.
CachePut(cache, key, fetch) ==
    IF CacheHas(cache, key) THEN cache
    ELSE Append(cache, [key |-> key, fetch |-> fetch])

\* One pass of relations.forEach for the document at `index` (from 0).
\* st: the relationDocMapping, the relationDocCache and the error thrown.
RelationStep(lists, target, collectionPath, idPropName, data, index, relation, st) ==
    LET relationMetadataArgs == Filter(lists.relations, LAMBDA item : item.target = target)
        found == FindFirst(relationMetadataArgs, LAMBDA item : item.propertyName = relation)
        relationMetadataArg == found[1]
        pushed == IF index + 1 > Len(st.mapping)
                  THEN Append(st.mapping, NoMapping) ELSE st.mapping
    IN  IF st.err # Undefined \/ found = <<>> THEN st
        ELSE IF relationMetadataArg.relationType = "many-to-one" THEN
            LET field == data[relation]
            IN  IF field.t # "DocumentReference" THEN [st EXCEPT !.mapping = pushed]
                ELSE IF index + 1 > Len(pushed)
                THEN [st EXCEPT !.mapping = pushed, !.err = "TypeError"]
                ELSE [st EXCEPT
                        !.mapping = [pushed EXCEPT ![index + 1][relation] =
                                        PathOf(field.col, field.id)],
                        !.cache = CachePut(@, PathOf(field.col, field.id),
                                           DocRead(field.col, field.id))]
        ELSE IF relationMetadataArg.relationType = "one-to-many" THEN
            LET relationCollectionPath ==
                    getCollectionPath(lists.collections, relationMetadataArg.type)
                documentPath == PathOf(collectionPath, data[idPropName].s)
                query == [Collection(relationCollectionPath.value) EXCEPT
                            !.wheres = <<[field |-> relationMetadataArg.inverseSide,
                                          value |-> Ref(collectionPath, data[idPropName].s)]>>]
            IN  IF relationCollectionPath.kind = "throw"
                THEN [st EXCEPT !.err = relationCollectionPath.value]
                ELSE IF index + 1 > Len(pushed)
                THEN [st EXCEPT !.mapping = pushed, !.err = "TypeError"]
                ELSE [st EXCEPT
                        !.mapping = [pushed EXCEPT ![index + 1][relation] = documentPath],
                        !.cache = CachePut(@, documentPath, QueryRead("query.get", query))]
        ELSE st

RECURSIVE RelationLoop(_, _, _, _, _, _, _, _)
RelationLoop(lists, target, collectionPath, idPropName, data, index, rels, st) ==
    IF rels = <<>> THEN st
    ELSE RelationLoop(lists, target, collectionPath, idPropName, data, index, Tail(rels),
            RelationStep(lists, target, collectionPath, idPropName, data, index,
                         Head(rels), st))

\* docs.map: the data of each document with its id, and the relation fetches
\* issued on the way.
RECURSIVE DocLoop(_, _, _, _, _, _, _, _)
DocLoop(lists, target, collectionPath, idPropName, docs, index, rels, st) ==
    IF index >= Len(docs) \/ st.err # Undefined THEN st
    ELSE LET doc == docs[index + 1]
             data == [doc.data EXCEPT ![idPropName] = Str(doc.id)]
             next == IF doc = Null THEN [st EXCEPT !.datas = Append(@, Null)]
                     ELSE [RelationLoop(lists, target, collectionPath, idPropName,
                                        data, index, rels, st)
                              EXCEPT !.datas = Append(@, Entity(data))]
         IN  DocLoop(lists, target, collectionPath, idPropName, docs, index + 1, rels, next)

\* convertToJsObject: a DocumentReference becomes its id, objects and arrays
\* are converted field by field.
ConvertFields(data) ==
    [f \in Fields |-> IF data[f].t = "DocumentReference" THEN Str(data[f].id) ELSE data[f]]

convertToJsObject(data) ==
    [f \in Fields |->
        CASE data[f].t = "DocumentReference" -> Str(data[f].id)
          [] data[f].t = "object" -> One(ConvertFields(data[f].data))
          [] data[f].t = "array" ->
                Many([i \in 1..Len(data[f].list) |-> ConvertFields(data[f].list[i])])
          [] OTHER -> data[f]]

transformToClass(entity) == Entity(convertToJsObject(entity.data))

\* What an awaited fetch of the cache resolves to, as relationCacheData keeps
\* it: the data of an existing document, the data of a query's documents,
\* and nothing for a document that does not exist.
DocData(snap) == IF snap.exists THEN One(snap.data) ELSE Undef
QueryData(found) == Many([i \in 1..Len(found) |-> found[i].data])

CacheData(docs, fetch) ==
    IF fetch.api = "doc.get" THEN DocData(DocGet(docs, fetch.col, fetch.id))
    ELSE QueryData(RunQuery(docs, fetch.query))

CacheLookup(docs, cache, key) ==
    IF CacheHas(cache, key)
    THEN CacheData(docs, cache[CHOOSE i \in 1..Len(cache) : cache[i].key = key].fetch)
    ELSE Undef

\* relationCacheData[relationDocMapping[index][relation]], if mapped.
RelationData(docs, st, i, f) ==
    IF f \in RelationNames /\ st.mapping[i][f] # Undefined
    THEN CacheLookup(docs, st.cache, st.mapping[i][f])
    ELSE Undef

\* if (relationData) dot.set(...)
dotSet(current, relationData) ==
    IF relationData # Undef THEN relationData ELSE current

\* dot.set of every mapped relation whose cache entry resolved to data.
Splice(docs, st) ==
    [i \in 1..Len(st.datas) |->
        IF i > Len(st.mapping) \/ st.datas[i] = Null THEN st.datas[i]
        ELSE Entity([f \in Fields |->
                dotSet(st.datas[i].data[f], RelationData(docs, st, i, f))])]

\* A mapping entry whose index holds no document makes dot.set fail.
SpliceFails(st) ==
    \E i \in 1..Len(st.mapping) :
        /\ i <= Len(st.datas) => st.datas[i] = Null
        /\ \E r \in RelationNames : st.mapping[i][r] # Undefined

\* Does the failing database call fall among calls from..to of the operation?
FailsIn(failAt, from, to) == failAt >= from /\ failAt <= to

\* Before the first document: nothing mapped, nothing fetched, no error.
NoRelations == [mapping |-> <<>>, cache |-> <<>>, datas |-> <<>>, err |-> Undefined]

\* The docs.map pass of loadRelations, after the id property and the
\* collection path of the class are read.
MapDocs(lists, target, idPropName, collectionPath, snapshots, rels) ==
    IF idPropName.kind = "throw" THEN [NoRelations EXCEPT !.err = idPropName.value]
    ELSE IF collectionPath.kind = "throw"
    THEN [NoRelations EXCEPT !.err = collectionPath.value]
    ELSE DocLoop(lists, target, collectionPath.value, idPropName.value, snapshots, 0,
                 rels, NoRelations)

\* plainToClass over the documents, null kept for a document that is absent.
Transformed(spliced) ==
    [i \in 1..Len(spliced) |->
        IF spliced[i] = Null THEN Null ELSE transformToClass(spliced[i])]

\* The rest of loadRelations: the fetches of the cache are awaited, their
\* data is set into the documents and the documents are transformed.
AwaitRelations(docs, st, issued, failAt) ==
    LET fetches == [i \in 1..Len(st.cache) |-> st.cache[i].fetch]
    IN  IF st.err # Undefined THEN [ret |-> Thrown(st.err), reads |-> fetches]
        ELSE IF st.mapping # <<>> /\ FailsIn(failAt, issued + 1, issued + Len(fetches))
        THEN [ret |-> Thrown("DatabaseError"), reads |-> fetches]
        ELSE IF st.mapping # <<>> /\ SpliceFails(st)
        THEN [ret |-> Thrown("TypeError"), reads |-> fetches]
        ELSE [ret |-> Returned(Transformed(IF st.mapping # <<>> THEN Splice(docs, st)
                                           ELSE st.datas)),
              reads |-> fetches]

\* loadRelations(target, docs, relations), `issued` database calls having
\* been made by the operation before it: what it returns or throws, and the
\* fetches it issued.
loadRelations(lists, docs, target, snapshots, rels, issued, failAt) ==
    Let(MapDocs(lists, target, getIdPropName(lists.ids, target),
                getCollectionPath(lists.collections, target), snapshots, rels),
        LAMBDA st : AwaitRelations(docs, st, issued, failAt))

-----------------------------------------------------------------------------
(* CollectionQuery: the query operations *)

\* Every operation below yields [ret, reads]: what it returns or throws and
\* the database calls it issued.  `issued` counts the calls the operation
\* made before, `failAt` names the call the database rejects (0: none).

Outcome(r, calls) == [ret |-> r, reads |-> calls]

getQuery(lists, opts, target) ==
    IF opts.collectionId # Undefined THEN Returned(CollectionGroup(opts.collectionId))
    ELSE IF opts.parentPath # Undefined THEN Returned(Collection(opts.parentPath))
    ELSE LET collectionPath == getCollectionPath(lists.collections, target)
         IN  IF collectionPath.kind = "throw" THEN collectionPath
             ELSE Returned(Collection(collectionPath.value))

\* The reference of the document `id` of the class: [col, id], or the error.
getDocumentRef(lists, opts, target, id) ==
    LET collectionPath == getCollectionPath(lists.collections, target)
    IN  IF collectionPath.kind = "throw" THEN collectionPath
        ELSE Returned([col |-> collectionPath.value, id |-> id])

\* A limit of 0, like a missing one, is falsy.
HasLimit(o) == o.limit # NoLimit /\ o.limit # 0

\* The query find builds from its options.
FindQuery(selfQuery, o) ==
    [selfQuery EXCEPT
        !.wheres = @ \o o.where,
        !.select = IF o.select # <<>> THEN o.select ELSE @,
        !.orders = IF o.order # <<>> THEN @ \o o.order ELSE @,
        !.limit = IF HasLimit(o) THEN o.limit ELSE @,
        !.startAfter = IF o.startAfter # <<>> THEN o.startAfter ELSE @]

\* An outcome that follows the database call `get` of the operation.
After(get, outcome) == Outcome(outcome.ret, <<get>> \o outcome.reads)

find(lists, docs, opts, target, o, issued, failAt) ==
    LET selfQuery == getQuery(lists, opts, target)
        query == FindQuery(selfQuery.value, o)
        get == QueryRead(IF opts.tnx THEN "tnx.get" ELSE "query.get", query)
    IN  IF selfQuery.kind = "throw" THEN Outcome(selfQuery, <<>>)
        ELSE IF ~CursorOk(query)
        THEN Outcome(Thrown("not part of the query result set"), <<>>)
        ELSE IF failAt = issued + 1 THEN Outcome(Thrown("DatabaseError"), <<get>>)
        ELSE Let(RunQuery(docs, query), LAMBDA querySnapshot :
                 After(get, loadRelations(lists, docs, target, querySnapshot,
                                          o.relations, issued + 1, failAt)))

\* Mutant: the signature is not checked.
verify_AnySecret(token, secret) == Returned(token.payload)

\* jsonwebtoken.sign and verify: a token carries its payload and the secret
\* it was signed with; verify accepts the tokens signed with its secret.
sign(payload, secret) == [payload |-> payload, secret |-> secret]
verify(token, secret) ==
    IF token.secret = secret THEN Returned(token.payload)
    ELSE Thrown("invalid signature")

NoToken == Undef
Page(token, documents) == [token |-> token, documents |-> documents]

\* Mutant: a page of exactly limit documents gets no token.
PageAndToken_OffByOne(tokenObj, idPropName, found) ==
    LET documents == found.ret.value
        lastDocument == documents[Len(documents)]
        lastDocumentId == lastDocument.data[idPropName.value].s
        token == sign([where |-> tokenObj.where, select |-> tokenObj.select,
                       order |-> tokenObj.order, limit |-> tokenObj.limit,
                       lastDocumentId |-> lastDocumentId], "fireorm")
    IN  IF found.ret.kind = "throw" THEN found
        ELSE IF tokenObj.limit = NoLimit \/ tokenObj.order = <<>>
                \/ tokenObj.limit >= Len(documents)
        THEN Outcome(Returned(Page(NoToken, documents)), found.reads)
        ELSE IF idPropName.kind = "throw" THEN Outcome(idPropName, found.reads)
        ELSE Outcome(Returned(Page(token, documents)), found.reads)

\* findAndToken once find has settled as `found`: the page, with a token
\* when the page may have a successor.
PageAndToken(tokenObj, idPropName, found) ==
    LET documents == found.ret.value
        lastDocument == documents[Len(documents)]
        lastDocumentId == lastDocument.data[idPropName.value].s
        token == sign([where |-> tokenObj.where, select |-> tokenObj.select,
                       order |-> tokenObj.order, limit |-> tokenObj.limit,
                       lastDocumentId |-> lastDocumentId], "fireorm")
    IN  IF found.ret.kind = "throw" THEN found
        ELSE IF tokenObj.limit = NoLimit \/ tokenObj.order = <<>>
                \/ tokenObj.limit > Len(documents)
        THEN Outcome(Returned(Page(NoToken, documents)), found.reads)
        ELSE IF idPropName.kind = "throw" THEN Outcome(idPropName, found.reads)
        ELSE Outcome(Returned(Page(token, documents)), found.reads)

findAndToken(lists, docs, opts, target, o, issued, failAt) ==
    Let(find(lists, docs, opts, target, o, issued, failAt), LAMBDA found :
        PageAndToken([where |-> o.where, select |-> o.select, order |-> o.order,
                      limit |-> IF HasLimit(o) THEN o.limit ELSE NoLimit],
                     getIdPropName(lists.ids, target), found))

findByToken(lists, docs, opts, target, token, failAt) ==
    LET tokenObj == verify(token, "fireorm")
        lastDocumentId == tokenObj.value.lastDocumentId
        ref == getDocumentRef(lists, opts, target, lastDocumentId)
        startAfter == DocGet(docs, ref.value.col, ref.value.id)
        get == DocRead(ref.value.col, ref.value.id)
        other == [where |-> tokenObj.value.where, select |-> tokenObj.value.select,
                  order |-> tokenObj.value.order, limit |-> tokenObj.value.limit,
                  relations |-> <<>>, startAfter |-> <<startAfter>>]
    IN  IF tokenObj.kind = "throw" THEN Outcome(Thrown("Invalid pagination token"), <<>>)
        ELSE IF lastDocumentId = Undefined \/ lastDocumentId = ""
        THEN Outcome(Thrown("Invalid pagination token"), <<>>)
        ELSE IF ref.kind = "throw" THEN Outcome(ref, <<>>)
        ELSE IF failAt = 1 THEN Outcome(Thrown("DatabaseError"), <<get>>)
        ELSE IF ~startAfter.exists
        THEN Outcome(Thrown("Invalid pagination token"), <<get>>)
        ELSE Let(other, LAMBDA page :
                 After(get, findAndToken(lists, docs, opts, target, page, 1, failAt)))

\* The first of the loaded documents, or the error of loading them.
FirstOf(loaded) ==
    IF loaded.ret.kind = "throw" THEN loaded
    ELSE Outcome(Returned(loaded.ret.value[1]), loaded.reads)

\* findOne once its query has resolved to `querySnapshot`.
FirstOrUndefined(lists, docs, target, rels, issued, failAt, get, querySnapshot) ==
    IF Len(querySnapshot) = 0 \/ ~querySnapshot[1].exists
    THEN Outcome(Returned(Undef), <<get>>)
    ELSE After(get, FirstOf(loadRelations(lists, docs, target, querySnapshot, rels,
                                          issued + 1, failAt)))

findOne(lists, docs, opts, target, o, issued, failAt) ==
    LET selfQuery == getQuery(lists, opts, target)
        query == [FindQuery(selfQuery.value, [o EXCEPT !.limit = NoLimit])
                     EXCEPT !.limit = 1]
        get == QueryRead(IF opts.tnx THEN "tnx.get" ELSE "query.get", query)
    IN  IF selfQuery.kind = "throw" THEN Outcome(selfQuery, <<>>)
        ELSE IF failAt = issued + 1 THEN Outcome(Thrown("DatabaseError"), <<get>>)
        ELSE FirstOrUndefined(lists, docs, target, o.relations, issued, failAt, get,
                              RunQuery(docs, query))

\* Mutant: undefined is passed on instead of rejected.
findOneOrFail_NeverRejects(lists, docs, opts, target, o, issued, failAt) ==
    findOne(lists, docs, opts, target, o, issued, failAt)

\* findOneOrFail once findOne has settled as `found`.
OrFail(target, found) ==
    IF found.ret.kind = "throw" THEN found
    ELSE IF found.ret.value = Undef
    THEN Outcome(Thrown("Entity not found, entity: " \o target), found.reads)
    ELSE found

findOneOrFail(lists, docs, opts, target, o, issued, failAt) ==
    OrFail(target, findOne(lists, docs, opts, target, o, issued, failAt))

\* The loaded documents for a list of ids, the first of them for a single id.
AllOrFirst(idOrIds, loaded) ==
    IF idOrIds.isArray THEN loaded ELSE FirstOf(loaded)

\* Mutant: the collection group is refused after the documents are read.
findByIds_ReadsFirst(lists, docs, opts, target, idOrIds, rels, failAt) ==
    LET collectionPath == IF opts.parentPath # Undefined THEN Returned(opts.parentPath)
                          ELSE getCollectionPath(lists.collections, target)
        get == AllRead(IF opts.tnx THEN "tnx.getAll" ELSE "getAll",
                       collectionPath.value, idOrIds.ids)
        docSnapshots == [i \in 1..Len(idOrIds.ids) |->
                            DocGet(docs, collectionPath.value, idOrIds.ids[i])]
        filterSnapShot == [i \in 1..Len(docSnapshots) |->
                              IF docSnapshots[i].exists THEN docSnapshots[i] ELSE Null]
    IN  IF collectionPath.kind = "throw" THEN Outcome(collectionPath, <<>>)
        ELSE IF failAt = 1 THEN Outcome(Thrown("DatabaseError"), <<get>>)
        ELSE IF opts.collectionId # Undefined
        THEN Outcome(Thrown("findByIds not support CollectionGroup"), <<get>>)
        ELSE IF ~idOrIds.isArray /\ Len(filterSnapShot) = 0
        THEN Outcome(Returned(Undef), <<get>>)
        ELSE After(get, AllOrFirst(idOrIds,
                 loadRelations(lists, docs, target, filterSnapShot, rels, 1, failAt)))

\* idOrIds: [isArray, ids], a single id being a list of one.
findByIds(lists, docs, opts, target, idOrIds, rels, failAt) ==
    LET collectionPath == IF opts.parentPath # Undefined THEN Returned(opts.parentPath)
                          ELSE getCollectionPath(lists.collections, target)
        get == AllRead(IF opts.tnx THEN "tnx.getAll" ELSE "getAll",
                       collectionPath.value, idOrIds.ids)
        docSnapshots == [i \in 1..Len(idOrIds.ids) |->
                            DocGet(docs, collectionPath.value, idOrIds.ids[i])]
        filterSnapShot == [i \in 1..Len(docSnapshots) |->
                              IF docSnapshots[i].exists THEN docSnapshots[i] ELSE Null]
    IN  IF opts.collectionId # Undefined
        THEN Outcome(Thrown("findByIds not support CollectionGroup"), <<>>)
        ELSE IF collectionPath.kind = "throw" THEN Outcome(collectionPath, <<>>)
        ELSE IF failAt = 1 THEN Outcome(Thrown("DatabaseError"), <<get>>)
        ELSE IF ~idOrIds.isArray /\ Len(filterSnapShot) = 0
        THEN Outcome(Returned(Undef), <<get>>)
        ELSE After(get, AllOrFirst(idOrIds,
                 loadRelations(lists, docs, target, filterSnapShot, rels, 1, failAt)))

-----------------------------------------------------------------------------
(* The application after startup: entities registered, a database, one      *)
(* CollectionQuery                                                          *)

\* The entities of the application: users with a manager, posts and comments.
StartupCollections ==
    <<[name |-> "users", target |-> "User", prefix |-> NoPrefix],
      [name |-> "posts", target |-> "Post", prefix |-> NoPrefix],
      [name |-> "comments", target |-> "Comment", prefix |-> NoPrefix]>>
StartupIds ==
    <<[target |-> "User", propertyName |-> "id", strategy |-> "auto"],
      [target |-> "Post", propertyName |-> "id", strategy |-> "uuid/v4"],
      [target |-> "Comment", propertyName |-> "id", strategy |-> "fn"]>>
StartupProperties == <<[target |-> "User", propertyName |-> "v"]>>
StartupRelations ==
    <<[target |-> "User", propertyName |-> "manager", relationType |-> "many-to-one",
       type |-> "User", inverseSide |-> Undefined],
      [target |-> "User", propertyName |-> "posts", relationType |-> "one-to-many",
       type |-> "Post", inverseSide |-> "author"],
      [target |-> "User", propertyName |-> "comments", relationType |-> "one-to-many",
       type |-> "Comment", inverseSide |-> "author"]>>

User(col, id, v, manager) ==
    Doc(col, id, [NoData EXCEPT !["v"] = Num(v), !["manager"] = manager])
Authored(col, id, author) ==
    Doc(col, id, [NoData EXCEPT !["author"] = Ref("users", author)])

\* Databases for paging: the users d1 .. dk, with or without a sub-collection
\* of users under orgs/o1.
ValueOf(i) == IF i = 2 THEN 2 ELSE 1
SubUsers == {User("orgs/o1/users", "d1", 2, Undef), User("orgs/o1/users", "s1", 1, Undef)}
PagingStores ==
    {{User("users", UserId(i), ValueOf(i), Undef) : i \in 1..k} \cup sub :
        k \in 0..MaxUsers, sub \in {{}, SubUsers}}

\* Databases for relations: two users, their managers, a post of the first
\* user and perhaps a comment.
RelationStores ==
    {{User("users", "d1", 1, m1), User("users", "d2", 2, m2),
      Authored("posts", "p1", "d1")} \cup comments :
        m1 \in {Undef, Ref("users", "d2")},
        m2 \in {Undef, Ref("users", "d1"), Ref("users", "d2")},
        comments \in {{}, {Authored("comments", "c1", "d1")}}}

Stores == PagingStores \cup RelationStores

Configurations ==
    [collectionId : {Undefined}, parentPath : {Undefined}, tnx : BOOLEAN] \cup
    [collectionId : {Undefined}, parentPath : {"orgs/o1/users"}, tnx : {FALSE}] \cup
    [collectionId : {"users"}, parentPath : {Undefined}, tnx : BOOLEAN]

InitQuery ==
    /\ store = 1
    /\ created = 1
    /\ collections = StartupCollections
    /\ ids = StartupIds
    /\ properties = StartupProperties
    /\ relations = StartupRelations
    /\ db \in Stores
    /\ options \in Configurations
    /\ call = [op |-> "none"]
    /\ ret = Box("string", Returned(Undefined))
    /\ reads = <<>>

\* The arguments callers pass.
QueryTargets == {"User"}
Wheres == {<<>>, <<[field |-> "v", value |-> Num(1)]>>}
Selects == {<<>>, <<"v">>}
Orders == {<<>>, <<[field |-> "v", dir |-> "asc"]>>, <<[field |-> "v", dir |-> "desc"]>>}
Limits == {NoLimit} \cup (0..MaxLimit)
RelationLists == {<<>>, <<"manager">>, <<"posts">>, <<"posts", "comments">>,
                  <<"manager", "posts">>}
Fails == 0..MaxFail
FindManyOptions ==
    [where : Wheres, select : Selects, order : Orders, limit : Limits,
     relations : RelationLists, startAfter : {<<>>}]
FindOneOptions ==
    [where : Wheres, select : Selects, order : Orders, limit : {NoLimit},
     relations : RelationLists, startAfter : {<<>>}]
LookupIds == {"d1", "d2", "gone"}
IdLists == UNION {[1..n -> LookupIds] : n \in 1..MaxIds}
IdOrIds == {[isArray |-> FALSE, ids |-> <<id>>] : id \in LookupIds} \cup
           {[isArray |-> TRUE, ids |-> list] : list \in IdLists}

\* Tokens a client may send that no findAndToken of this run issued: forged,
\* without a last document, or naming a document that may be gone.
ForeignTokens ==
    {sign([where |-> <<>>, select |-> <<>>,
           order |-> <<[field |-> "v", dir |-> "asc"]>>, limit |-> 1,
           lastDocumentId |-> id], secret) :
        id \in {Undefined, "", "d1", "gone", "s1"}, secret \in {"fireorm", "forged"}}

\* The options a token's payload carries on to the next page.
OptionsOf(payload) ==
    [where |-> payload.where, select |-> payload.select, order |-> payload.order,
     limit |-> payload.limit, relations |-> <<>>, startAfter |-> <<>>]

\* An operation of the query layer: the registry is read through
\* getMetadataStorage(), the database and the options are only read.
Query(ms, type, record, outcome) ==
    /\ Registry(ms, ListsOf(ms))
    /\ call' = record
    /\ \E settled \in {outcome} :
        /\ ret' = Box(type, settled.ret)
        /\ reads' = settled.reads
    /\ UNCHANGED <<db, options>>

\* The query operations keep no state between calls, so each is explored as
\* the first call of a run; only findByToken also continues a pagination.
Idle == call.op = "none"

Find ==
    /\ Idle
    /\ \E target \in QueryTargets, o \in FindManyOptions, failAt \in Fails :
        LET ms == getMetadataStorage
        IN  Query(ms, "list",
              [op |-> "find", target |-> target, o |-> o, failAt |-> failAt],
                 find(ListsOf(ms), db, options, target, o, 0, failAt))

\* findAndToken called with options of `os`, the database failing as in `fails`.
FindAndTokenWith(os, fails) ==
    /\ Idle
    /\ \E target \in QueryTargets, o \in os, failAt \in fails :
        LET ms == getMetadataStorage
        IN  Query(ms, "page",
              [op |-> "findAndToken", target |-> target, o |-> o,
                      failAt |-> failAt],
                 findAndToken(ListsOf(ms), db, options, target, o, 0, failAt))

FindAndToken == FindAndTokenWith(FindManyOptions, Fails)

FindByForeignToken ==
    /\ Idle
    /\ \E target \in QueryTargets, token \in ForeignTokens, failAt \in Fails :
        LET ms == getMetadataStorage
        IN  Query(ms, "page",
              [op |-> "findByToken", target |-> target, token |-> token,
                      failAt |-> failAt, issued |-> FALSE,
                      o |-> OptionsOf(token.payload), previous |-> <<>>,
                      pages |-> <<>>],
                 findByToken(ListsOf(ms), db, options, target, token, failAt))

\* The documents of all the pages the caller has received.
Received ==
    (IF call.op = "findByToken" THEN call.pages ELSE <<>>) \o result.value.documents

\* The caller sends back the token the last page came with; `pages` are the
\* documents of the pages it has received so far.
FindByTokenWith(fails) ==
    /\ call.op \in {"findAndToken", "findByToken"}
    /\ result.kind = "return"
    /\ result.value.token # NoToken
    /\ Len(Received) <= MaxReceived
    /\ \E failAt \in fails :
        LET ms == getMetadataStorage
        IN  Query(ms, "page",
              [op |-> "findByToken", target |-> call.target,
                      token |-> result.value.token, failAt |-> failAt,
                      issued |-> TRUE, o |-> call.o,
                      previous |-> result.value.documents,
                      pages |-> Received,
                      cursor |-> LET page == RunQuery(db,
                                        IF call.op = "findByToken"
                                        THEN reads[2].query ELSE reads[1].query)
                                 IN  DocGet(db, page[Len(page)].col,
                                            page[Len(page)].id)],
                 findByToken(ListsOf(ms), db, options, call.target,
                             result.value.token, failAt))

FindByToken == FindByTokenWith(Fails)

FindOne ==
    /\ Idle
    /\ \E target \in QueryTargets, o \in FindOneOptions, failAt \in Fails :
        LET ms == getMetadataStorage
        IN  Query(ms, "record",
              [op |-> "findOne", target |-> target, o |-> o, failAt |-> failAt],
                 findOne(ListsOf(ms), db, options, target, o, 0, failAt))

FindOneOrFail ==
    /\ Idle
    /\ \E target \in QueryTargets, o \in FindOneOptions, failAt \in Fails :
        LET ms == getMetadataStorage
        IN  Query(ms, "record",
              [op |-> "findOneOrFail", target |-> target, o |-> o,
                      failAt |-> failAt],
                 findOneOrFail(ListsOf(ms), db, options, target, o, 0, failAt))

FindByIds ==
    /\ Idle
    /\ \E target \in QueryTargets, idOrIds \in IdOrIds, rels \in RelationLists,
       failAt \in Fails :
        LET ms == getMetadataStorage
        IN  Query(ms, IF idOrIds.isArray THEN "list" ELSE "record",
              [op |-> "findByIds", target |-> target, idOrIds |-> idOrIds,
                      relations |-> rels, failAt |-> failAt],
                 findByIds(ListsOf(ms), db, options, target, idOrIds, rels, failAt))

QueryOps == {"find", "findAndToken", "findByToken", "findOne", "findOneOrFail",
             "findByIds"}

NextQuery ==
    \/ Find
    \/ FindAndToken
    \/ FindByForeignToken
    \/ FindByToken
    \/ FindOne
    \/ FindOneOrFail
    \/ FindByIds
    \/ (Idle /\ ReadRegistry)

SpecQuery == InitQuery /\ [][NextQuery]_vars

-----------------------------------------------------------------------------
(* A pagination traversal: findAndToken with a where, an order and a limit   *)
(* of at least 1, then findByToken with the token last returned, for as long *)
(* as one is returned; no database call fails                                *)

TraversalOptions ==
    [where : Wheres, select : {<<>>}, order : Orders \ {<<>>}, limit : 1..MaxLimit,
     relations : {<<>>}, startAfter : {<<>>}]

StartTraversal == FindAndTokenWith(TraversalOptions, {0})

NextPage == FindByTokenWith({0})

NextTraversal ==
    \/ StartTraversal
    \/ NextPage

\* The caller keeps calling while it holds a token.
SpecTraversal == InitQuery /\ [][NextTraversal]_vars /\ WF_vars(NextPage)

-----------------------------------------------------------------------------
(* The whole program: the registry from module load on, or the application *)
(* after startup                                                           *)

Init == InitRegistry \/ InitQuery

Next == NextRegistry \/ NextQuery

Spec == Init /\ [][Next]_vars

-----------------------------------------------------------------------------
(* Claims on the query layer *)

Throws(r, message) == r.kind = "throw" /\ r.value = message

\* The entities a page of snapshots is returned as, no relation loaded.
PageOf(snapshots) ==
    [i \in 1..Len(snapshots) |->
        Entity(convertToJsObject([snapshots[i].data EXCEPT !["id"] = Str(snapshots[i].id)]))]

\* The queries for result sets among the database calls of the last operation.
ResultQueries == {i \in 1..Len(reads) : reads[i].api \in {"query.get", "tnx.get"}}

\* C2: findByToken rejects with 'Invalid pagination token' when the token is
\* not signed with the secret, when its payload has no lastDocumentId, and
\* when the document of that id is not in the collection of the class; no
\* query for a result set is then issued and nothing is returned.  A database
\* call that fails is the last call made and its failure is the outcome.
C2_InvalidToken ==
    call.op = "findByToken" =>
        LET payload == call.token.payload
            forged == call.token.secret # "fireorm"
            noLast == payload.lastDocumentId \in {Undefined, ""}
            gone == ~\E d \in db : /\ d.col = getCollectionPath(collections, call.target).value
                                   /\ d.id = payload.lastDocumentId
        IN  /\ (forged \/ noLast \/ (gone /\ call.failAt # 1)) =>
                /\ Throws(result, "Invalid pagination token")
                /\ ResultQueries = {}
            /\ call.failAt \in 1..Len(reads) =>
                /\ Throws(result, "DatabaseError")
                /\ Len(reads) = call.failAt

\* A signed token names a document that is gone: one read, then the rejection.
C2_Witness ==
    /\ call.op = "findByToken"
    /\ call.token.secret = "fireorm"
    /\ call.token.payload.lastDocumentId = "gone"
    /\ call.failAt = 0
    /\ Throws(result, "Invalid pagination token")
    /\ Len(reads) = 1

\* C3: a token issued by findAndToken or findByToken is accepted by
\* findByToken on the same query object, which returns the page find returns
\* for the same where, select, order and limit started after the last
\* document of the page the token came with.
C3_TokenRoundTrip ==
    (call.op = "findByToken" /\ call.issued /\ call.failAt = 0) =>
        LET selfQuery == getQuery(ListsOf(getMetadataStorage), options, call.target)
            expected == RunQuery(db, [FindQuery(selfQuery.value, call.o)
                                         EXCEPT !.startAfter = <<call.cursor>>])
        IN  /\ result.kind = "return"
            /\ result.value.documents = PageOf(expected)

\* C3 holds of a query on the collection of the class itself.
C3_DefaultCollection ==
    (options.collectionId = Undefined /\ options.parentPath = Undefined)
        => C3_TokenRoundTrip

\* C4 as stated: a token is returned exactly when the options carry a limit
\* and an order and the page holds at least limit documents.
C4_TokenIffFullPage ==
    (call.op = "findAndToken" /\ result.kind = "return") =>
        (result.value.token # NoToken <=>
            /\ call.o.limit # NoLimit
            /\ call.o.order # <<>>
            /\ Len(result.value.documents) >= call.o.limit)

\* C4, amended: a token is returned exactly when the options carry a limit
\* other than 0 and an order and the page holds at least limit documents; the
\* token then is signed and carries the id of the last document of the page
\* with the where, select, order and limit of the call; the documents are
\* those find returns for the same arguments.
C4_TokenIffFullPagePositiveLimit ==
    (call.op = "findAndToken" /\ result.kind = "return") =>
        LET o == call.o
            documents == result.value.documents
            token == result.value.token
            found == find(ListsOf(getMetadataStorage), db, options, call.target, o, 0,
                          call.failAt)
        IN  /\ token # NoToken <=>
                /\ o.limit # NoLimit /\ o.limit # 0
                /\ o.order # <<>>
                /\ Len(documents) >= o.limit
            /\ token # NoToken =>
                /\ verify(token, "fireorm").kind = "return"
                /\ token.payload =
                      [where |-> o.where, select |-> o.select, order |-> o.order,
                       limit |-> o.limit,
                       lastDocumentId |-> documents[Len(documents)].data["id"].s]
                /\ documents[Len(documents)].data["id"].s =
                      RunQuery(db, reads[1].query)[Len(documents)].id
            /\ found.ret.kind = "return"
            /\ documents = found.ret.value

\* A page as long as its limit comes with a token.
C4_Witness ==
    /\ call.op = "findAndToken"
    /\ result.kind = "return"
    /\ call.o.limit = 2
    /\ Len(result.value.documents) = 2
    /\ result.value.token # NoToken
    /\ call.o.where # <<>>

\* C5: findOneOrFail rejects with 'Entity not found' exactly when findOne,
\* called with the same arguments, resolves to undefined, which it does
\* exactly when no document matches; otherwise it settles as findOne does.
C5_FindOneOrFail ==
    call.op = "findOneOrFail" =>
        LET one == findOne(ListsOf(getMetadataStorage), db, options, call.target,
                           call.o, 0, call.failAt)
            undefined == one.ret.kind = "return" /\ one.ret.value = Undef
            matching == RunQuery(db, [reads[1].query EXCEPT !.limit = NoLimit])
        IN  /\ Throws(result, "Entity not found, entity: " \o call.target) <=> undefined
            /\ ~undefined => result = one.ret
            /\ (call.failAt # 1 /\ reads # <<>>) => (undefined <=> matching = <<>>)

\* The sub-collection queried is empty and findOneOrFail rejects, while the
\* collection of the class has users.
C5_Witness ==
    /\ call.op = "findOneOrFail"
    /\ Throws(result, "Entity not found, entity: User")
    /\ call.o.where # <<>>
    /\ \E d \in db : d.col = "users"
    /\ options.parentPath # Undefined

UnsupportedGroup == "findByIds not support CollectionGroup"

\* C6: findByIds on a collection-group query fails with 'findByIds not
\* support CollectionGroup' before any database call is issued; on any other
\* query it never fails with that error.
C6_FindByIdsGroup ==
    call.op = "findByIds" =>
        /\ options.collectionId # Undefined =>
              Throws(result, UnsupportedGroup) /\ reads = <<>>
        /\ options.collectionId = Undefined => ~Throws(result, UnsupportedGroup)

\* A list of ids is refused on a collection group inside a transaction.
C6_Witness ==
    /\ call.op = "findByIds"
    /\ options.collectionId # Undefined
    /\ options.tnx
    /\ call.idOrIds.isArray
    /\ Len(call.idOrIds.ids) = 2
    /\ Throws(result, UnsupportedGroup)

\* C8: the read operations of the registry and the query operations leave
\* the four lists as they are, and once the registry exists
\* getMetadataStorage() keeps returning that instance.
C8_RegistryReadOnly ==
    [][/\ call'.op \in ReadOps \cup QueryOps => registry' = registry
       /\ store # NoStore => store' = store
       /\ call'.op = "getMetadataStorage" => ret'.box["number"] = store']_vars

\* A query returned documents from a registry of three relations.
C8_Witness ==
    /\ call.op = "find"
    /\ result.kind = "return"
    /\ Len(result.value) > 0
    /\ Len(relations) = 3
    /\ store = 1

\* The relation fetches of the last operation: every call after its first.
RelationFetches == IF reads = <<>> THEN <<>> ELSE Tail(reads)

\* The path a relation fetch was resolved for: the document fetched, or the
\* document the related collection is matched against.
ResolvedPath(fetch) ==
    IF fetch.api = "doc.get" THEN PathOf(fetch.col, fetch.id)
    ELSE PathOf(fetch.query.wheres[1].value.col, fetch.query.wheres[1].value.id)

LoadingOps == {"find", "findAndToken", "findOne", "findOneOrFail", "findByIds"}

\* C9: one loadRelations call issues at most one fetch per resolved path, and
\* it issues every fetch before the outcome of any is known: the calls made
\* are the same whichever of them fails.
C9_OneFetchPerPath ==
    call.op \in LoadingOps =>
        /\ \A i, j \in 1..Len(RelationFetches) :
              ResolvedPath(RelationFetches[i]) = ResolvedPath(RelationFetches[j]) => i = j
        /\ call.op = "find" /\ call.failAt > 1 =>
              reads = find(ListsOf(getMetadataStorage), db, options, call.target,
                           call.o, 0, 0).reads

\* Two users have the same manager, which is fetched once; the fetch fails.
C9_Witness ==
    /\ call.op = "find"
    /\ call.o.relations = <<"manager">>
    /\ call.failAt = 2
    /\ Throws(result, "DatabaseError")
    /\ Len(RelationFetches) = 1
    /\ Cardinality({d \in db : d.col = "users" /\ d.data["manager"] = Ref("users", "d2")}) = 2

\* What the relation of a document holds once loaded by its own lookup.
OwnLookup(snapshot, relation) ==
    LET rm == CHOOSE item \in Range(relations) :
                  item.target = call.target /\ item.propertyName = relation
        field == snapshot.data[relation]
        own == RunQuery(db, [Collection(getCollectionPath(collections, rm.type).value)
                  EXCEPT !.wheres = <<[field |-> rm.inverseSide,
                                       value |-> Ref(snapshot.col, snapshot.id)]>>])
        one == DocGet(db, field.col, field.id)
    IN  IF rm.relationType = "one-to-many"
        THEN Many([i \in 1..Len(own) |-> ConvertFields(own[i].data)])
        ELSE IF field.t = "DocumentReference" /\ one.exists
        THEN One(ConvertFields(one.data))
        ELSE IF field.t = "DocumentReference" THEN Str(field.id)
        ELSE field

\* C10: every requested relation of every document find returns holds the
\* result of that relation's own lookup.
C10_OwnRelation ==
    (call.op = "find" /\ result.kind = "return") =>
        LET snapshots == RunQuery(db, reads[1].query)
        IN  \A i \in 1..Len(snapshots) :
                \A k \in 1..Len(call.o.relations) :
                    result.value[i].data[call.o.relations[k]] =
                        OwnLookup(snapshots[i], call.o.relations[k])

\* The collection findByIds reads its documents from.
LookupPath ==
    IF options.parentPath # Undefined THEN options.parentPath
    ELSE getCollectionPath(collections, call.target).value

\* C11: findByIds with a list of ids, on a query without collectionId and
\* with no database call failing, returns a list as long as the id list; its
\* i-th entry is null when the document of the i-th id does not exist, and
\* otherwise the entity of that id, every requested relation holding the
\* result of the lookup for that very document.
C11_FindByIdsList ==
    (/\ call.op = "findByIds"
     /\ call.idOrIds.isArray
     /\ options.collectionId = Undefined
     /\ call.failAt = 0) =>
        LET idList == call.idOrIds.ids
        IN  /\ result.kind = "return"
            /\ Len(result.value) = Len(idList)
            /\ \A i \in 1..Len(idList) :
                  IF ~DocGet(db, LookupPath, idList[i]).exists
                  THEN result.value[i] = Null
                  ELSE /\ result.value[i] # Null
                       /\ result.value[i].data["id"] = Str(idList[i])
                       /\ \A k \in 1..Len(call.relations) :
                             result.value[i].data[call.relations[k]] =
                                 OwnLookup(DocGet(db, LookupPath, idList[i]),
                                           call.relations[k])

\* C11 holds when no relation is requested.
C11_WithoutRelations ==
    (call.op = "findByIds" /\ call.relations = <<>>) => C11_FindByIdsList

\* What a single find with the where and the order of the traversal and no
\* limit returns.
WholeResult ==
    find(ListsOf(getMetadataStorage), db, options, call.target,
         [call.o EXCEPT !.limit = NoLimit], 0, 0).ret

\* The traversal has ended with an undefined token, the pages received being
\* the whole result in order.
TraversalComplete ==
    /\ call.op \in {"findAndToken", "findByToken"}
    /\ result.kind = "return"
    /\ result.value.token = NoToken
    /\ WholeResult.kind = "return"
    /\ Received = WholeResult.value

\* C12: a traversal that starts with findAndToken and keeps calling
\* findByToken with the token last returned reaches, after finitely many
\* calls, a call that returns no token, and the pages received up to it are
\* together what one find with the same where and order and no limit returns.
C12_TraversalCompletes == (call.op = "findAndToken") ~> TraversalComplete

\* C12 holds of a traversal of the collection of the class itself.
C12_DefaultCollection ==
    (/\ call.op = "findAndToken"
     /\ options.collectionId = Undefined
     /\ options.parentPath = Undefined) ~> TraversalComplete

\* The number of matching documents is a multiple of the limit: the last
\* page is empty and comes without a token.
C12_ExactMultiple ==
    /\ call.op = "findByToken"
    /\ call.o.limit = 2
    /\ Len(call.pages) = 2
    /\ TraversalComplete
    /\ result.value.documents = <<>>

====
